---- MODULE Spec2Model ----
(***************************************************************************)
(* The request-handler layer of esd19/server-escuela: three Express        *)
(* servers over a MySQL pool.                                              *)
(*   "users0"    src/unnamed/part_000   /users CRUD, first variant         *)
(*   "users1"    src/unnamed/part_001   /users CRUD, hardened variant      *)
(*   "resources" src/server.js          /api/resources list/create/delete  *)
(* A handler runs without interruption up to its next await; the store     *)
(* executes each SQL statement atomically; statements of different         *)
(* requests interleave freely.                                             *)
(***************************************************************************)
EXTENDS Integers, Sequences, FiniteSets, TLC

VARIABLES server, db, nextId, inflight, last, created, deleted, gReq, gOut

vars == <<server, db, nextId, inflight, last, created, deleted, gReq, gOut>>

(* ---------------------------- bounds ----------------------------------- *)
\* number of rows the AUTO_INCREMENT column hands out before inserts only fail
MaxId == 2
\* number of requests that can be suspended at an await at the same time
MaxInflight == 2

(* ------------------------- JavaScript values --------------------------- *)
\* A string is a sequence of one-character strings, so that trim and
\* parseInt work on characters.  A JSON value is undefined, a string or an
\* integer number.
JUndef == [t |-> "undefined", s |-> <<>>, n |-> 0]
JStr(chars) == [t |-> "string", s |-> chars, n |-> 0]
JNum(k) == [t |-> "number", s |-> <<>>, n |-> k]

WhiteSpace == {" ", "\t"}
DigitSeq == <<"0", "1", "2", "3", "4", "5", "6", "7", "8", "9">>
IsDigit(c) == \E i \in 1..Len(DigitSeq) : DigitSeq[i] = c
DigitVal(c) == (CHOOSE i \in 1..Len(DigitSeq) : DigitSeq[i] = c) - 1

\* x is falsy in JavaScript: undefined, "", 0
Falsy(x) == x.t = "undefined" \/ (x.t = "string" /\ x.s = <<>>) \/ (x.t = "number" /\ x.n = 0)
\* a || b
OrElse(a, b) == IF Falsy(a) THEN b ELSE a

\* String.prototype.trim on a character sequence
Trim(str) ==
  LET keep == {i \in 1..Len(str) : str[i] \notin WhiteSpace}
  IN  IF keep = {} THEN <<>>
      ELSE LET lo == CHOOSE i \in keep : \A j \in keep : i <= j
               hi == CHOOSE i \in keep : \A j \in keep : j <= i
           IN  SubSeq(str, lo, hi)

\* x.trim(): a TypeError unless x is a string
TrimCall(x) ==
  IF x.t = "string" THEN [threw |-> FALSE, v |-> Trim(x.s)]
  ELSE [threw |-> TRUE, v |-> <<>>]

RECURSIVE NatToStr(_)
NatToStr(k) == IF k < 10 THEN <<DigitSeq[k + 1]>> ELSE NatToStr(k \div 10) \o <<DigitSeq[(k % 10) + 1]>>

\* ToString of a value, as parseInt applies it to its argument
JsToString(x) ==
  CASE x.t = "string" -> x.s
    [] x.t = "number" -> IF x.n < 0 THEN <<"-">> \o NatToStr(0 - x.n) ELSE NatToStr(x.n)
    [] OTHER -> <<"u", "n", "d", "e", "f", "i", "n", "e", "d">>

(* Numbers: an integer, NaN or an infinity; null is the value getId gives  *)
(* when there is no identifier.                                            *)
NaN == [k |-> "NaN", v |-> 0]
Infinity == [k |-> "Infinity", v |-> 0]
JInt(v) == [k |-> "int", v |-> v]
Null == [k |-> "null", v |-> 0]

\* number of significant decimal digits from which a double is Infinity:
\* Number.MAX_VALUE is about 1.8e308, so 310 digits or more overflow
InfiniteDigits == 310

RECURSIVE DigitsValue(_)
DigitsValue(ds) == IF ds = <<>> THEN 0 ELSE 10 * DigitsValue(SubSeq(ds, 1, Len(ds) - 1)) + DigitVal(ds[Len(ds)])

\* the index of the first character of str, from i on, that is not in set
\* (Len(str) + 1 if there is none)
SkipWhile(str, i, set) ==
  LET stops == {j \in i..Len(str) : str[j] \notin set}
  IN  IF stops = {} THEN Len(str) + 1 ELSE CHOOSE j \in stops : \A k \in stops : j <= k

Digits == {DigitSeq[i] : i \in 1..Len(DigitSeq)}

\* the Number a run of decimal digits denotes, leading zeros dropped.  The
\* value is exact below 2^53 (the inputs drawn here have at most 3 digits,
\* or at least InfiniteDigits).
NumberOf(neg, sig) ==
  IF Len(sig) >= InfiniteDigits THEN Infinity
  ELSE JInt((IF neg THEN -1 ELSE 1) * DigitsValue(sig))

\* parseInt after white space and sign: the longest run of decimal digits,
\* NaN when the run is empty
ParseDigits(neg, str) ==
  IF str = <<>> \/ str[1] \notin Digits THEN NaN
  ELSE NumberOf(neg, SubSeq(str, SkipWhile(str, 1, {"0"}), SkipWhile(str, 1, Digits) - 1))

\* parseInt after white space: an optional sign
ParseSigned(str) ==
  IF str # <<>> /\ str[1] \in {"-", "+"} THEN ParseDigits(str[1] = "-", Tail(str))
  ELSE ParseDigits(FALSE, str)

\* the string without its leading white space
TrimStart(str) == SubSeq(str, SkipWhile(str, 1, WhiteSpace), Len(str))

\* parseInt(x, 10)
parseInt(x) == ParseSigned(TrimStart(JsToString(x)))

\* Number.isInteger
IsInteger(num) == num.k = "int"
\* Number.isNaN
IsNaN(num) == num.k = "NaN"

\* a ?? b
Coalesce(a, b) == IF a.t = "undefined" THEN b ELSE a

\* faulty variant of getId: the query parameter is looked at before the path
getIdQueryFirst(req) ==
  LET raw == Coalesce(req.query, Coalesce(req.params, req.bodyId))
      id == parseInt(raw)
  IN  IF IsInteger(id) THEN id ELSE Null

\* getId(req): path parameter, then query parameter, then body field
getId(req) ==
  LET raw == Coalesce(req.params, Coalesce(req.query, req.bodyId))
      id == parseInt(raw)
  IN  IF IsInteger(id) THEN id ELSE Null

(* --------------------------- request inputs ---------------------------- *)
\* a path or query id of 310 nines: parseInt gives Infinity
HugeDigits == [i \in 1..InfiniteDigits |-> "9"]

\* :id of a route is absent or a non-empty string
PathIds == {JUndef, JStr(<<"5">>), JStr(<<"1">>), JStr(<<"0">>), JStr(<<"x">>), JStr(<<" ", "1", "2", "a">>), JStr(HugeDigits)}
\* ?id= is absent or a string, possibly empty
QueryIds == {JUndef, JStr(<<"6">>), JStr(<<"2">>), JStr(<<>>), JStr(<<"-", "3">>), JStr(<<"a", "1">>)}
\* body.id is absent or any JSON value
BodyIds == {JUndef, JStr(<<"7">>), JNum(7), JNum(0), JStr(<<"0", "0", "1">>), JStr(<<"+">>)}

IdRequests == [params : PathIds, query : QueryIds, bodyId : BodyIds]

NoRequest == [params |-> JUndef, query |-> JUndef, bodyId |-> JUndef]
(* ------------------------------ requests ------------------------------- *)
\* What a handler holds of one request: the raw body fields it reads, the
\* identifier it resolved, the parameters of its query, what the store
\* answered, and the response it sent.
\*   pc      "q1"/"q2": suspended at its first/second await; "done": answered
\*   nq      number of queries issued so far
\* created counts, per id, the rows the store was made to insert under that
\* id; deleted holds the ids of the rows removed.
NoBody == [name |-> JUndef]

NewCtx(kind, id, body) ==
  [pc |-> "start", kind |-> kind, id |-> id, body |-> body, args |-> <<>>, insertId |-> 0,
   nq |-> 0, status |-> 0, msg |-> "", data |-> <<>>]

NoResponse == NewCtx("none", Null, NoBody)

\* res.status(status).json(...)
Respond(c, status, msg, data) ==
  [c EXCEPT !.pc = "done", !.status = status, !.msg = msg, !.data = data]

\* await pool.query(...) / pool.execute(...): the handler suspends
Await(c, pc, args) == [c EXCEPT !.pc = pc, !.args = args, !.nq = @ + 1]

TypeErrorMessage == "trim is not a function"
\* messages a failing store can give (err.message)
ErrDetails == {"connect ECONNREFUSED", "Lock wait timeout exceeded"}

(* ------------------------------- store --------------------------------- *)
\* the outcome of a statement: err is "" or the error's message; tbl is the
\* table after the statement
Failed(tbl, e) == [err |-> e, affectedRows |-> 0, insertId |-> 0, rows |-> <<>>, tbl |-> tbl]
Done(tbl, affected, insertId, rows) == [err |-> "", affectedRows |-> affected, insertId |-> insertId, rows |-> rows, tbl |-> tbl]

Max(S) == CHOOSE x \in S : \A y \in S : y <= x

\* SELECT id, name FROM users ORDER BY id DESC
SqlSelectUsers(tbl) ==
  LET n == Cardinality(DOMAIN tbl)
      f == CHOOSE g \in [1..n -> DOMAIN tbl] : \A i, j \in 1..n : i < j => g[i] > g[j]
  IN  Done(tbl, 0, 0, [i \in 1..n |-> tbl[f[i]]])

\* faulty variant of SqlInsertUsers: the new id is one more than the largest id stored
SqlInsertUsersMaxPlusOne(tbl, nid, name) ==
  LET id == IF DOMAIN tbl = {} THEN 1 ELSE Max(DOMAIN tbl) + 1
  IN  Done([i \in DOMAIN tbl \cup {id} |-> IF i = id THEN [id |-> id, name |-> name] ELSE tbl[i]], 1, id, <<>>)

\* INSERT INTO users (name) VALUES (?), nid the AUTO_INCREMENT counter
SqlInsertUsers(tbl, nid, name) ==
  Done([i \in DOMAIN tbl \cup {nid} |-> IF i = nid THEN [id |-> nid, name |-> name] ELSE tbl[i]], 1, nid, <<>>)

\* UPDATE users SET name = ? WHERE id = ?
SqlUpdateUsers(tbl, id, name) ==
  IF id \in DOMAIN tbl THEN Done([tbl EXCEPT ![id].name = name], 1, 0, <<>>)
  ELSE Done(tbl, 0, 0, <<>>)

\* DELETE FROM users WHERE id = ? / DELETE FROM resources WHERE id = ?
SqlDeleteById(tbl, id) ==
  IF id \in DOMAIN tbl THEN Done([i \in DOMAIN tbl \ {id} |-> tbl[i]], 1, 0, <<>>)
  ELSE Done(tbl, 0, 0, <<>>)

\* SELECT ... WHERE id = ?
SqlSelectById(tbl, id) == Done(tbl, 0, 0, IF id \in DOMAIN tbl THEN <<tbl[id]>> ELSE <<>>)

\* the outcomes of a statement: it runs, or the store fails with some error
Outcomes == {""} \cup ErrDetails
(* -------------------------- in-flight requests ------------------------- *)
\* inflight is a bag: a function from the suspended requests to how many
\* requests are suspended in that same state
BagSize(bag) ==
  LET RECURSIVE Sum(_)
      Sum(S) == IF S = {} THEN 0 ELSE LET x == CHOOSE y \in S : TRUE IN bag[x] + Sum(S \ {x})
  IN  Sum(DOMAIN bag)
BagAdd(bag, c) ==
  [x \in DOMAIN bag \cup {c} |-> IF x \in DOMAIN bag THEN (IF x = c THEN bag[x] + 1 ELSE bag[x]) ELSE 1]
BagRemove(bag, c) ==
  IF bag[c] > 1 THEN [bag EXCEPT ![c] = @ - 1] ELSE [x \in DOMAIN bag \ {c} |-> bag[x]]

\* a request arrives and its handler runs to its first await or its response
Arrive(c) ==
  IF c.pc = "done" THEN last' = c /\ UNCHANGED inflight
  ELSE BagSize(inflight) < MaxInflight /\ inflight' = BagAdd(inflight, c) /\ last' = NoResponse

\* the handler of suspended request c resumes and runs to its next await or
\* its response
Resume(c, out) ==
  IF out.pc = "done" THEN last' = out /\ inflight' = BagRemove(inflight, c)
  ELSE inflight' = BagAdd(BagRemove(inflight, c), out) /\ last' = NoResponse

Suspended(kind, pc) == {c \in DOMAIN inflight : c.kind = kind /\ c.pc = pc}

(* ----------------- /users: part_000 and part_001 ----------------------- *)
UsersServers == {"users0", "users1"}

\* the message of the 500 response the catch block of a /users handler sends
UsersCatchMessage(srv, kind, e) ==
  IF srv = "users1" THEN "Error interno"
  ELSE CASE kind = "list" -> "Error de conexión: " \o e
         [] kind = "create" -> "Error al insertar usuario"
         [] kind = "update" -> "Error al actualizar usuario"
         [] OTHER -> "Error al eliminar usuario"

UsersCatch(srv, c, e) == Respond(c, 500, UsersCatchMessage(srv, c.kind, e), <<>>)

\* app.get("/users"): up to the await
GetUsersHandler == Await(NewCtx("list", Null, NoBody), "q1", <<>>)

\* app.get("/users"): from the await on
GetUsersResult(srv, c, res) ==
  IF res.err # "" THEN UsersCatch(srv, c, res.err)
  ELSE Respond(c, 200, "", res.rows)

\* app.post("/users"): up to the await
PostUsersHandler(srv, body) ==
  LET c == NewCtx("create", Null, body)
      name == TrimCall(OrElse(body.name, JStr(<<>>)))
  IN  IF name.threw THEN UsersCatch(srv, c, TypeErrorMessage)
      ELSE IF name.v = <<>> THEN Respond(c, 400, "Nombre no válido", <<>>)
      ELSE Await(c, "q1", <<name.v>>)

\* faulty variant of PostUsersResult: a failed insert is answered as a success
PostUsersResultSwallow(srv, c, res) ==
  Respond([c EXCEPT !.insertId = res.insertId], 200, "Usuario agregado correctamente", <<>>)

\* app.post("/users"): from the await on
PostUsersResult(srv, c, res) ==
  IF res.err # "" THEN UsersCatch(srv, c, res.err)
  ELSE IF res.affectedRows = 1
       THEN Respond([c EXCEPT !.insertId = res.insertId], 200, "Usuario agregado correctamente", <<>>)
       ELSE Respond(c, 500, IF srv = "users1" THEN "No se pudo insertar" ELSE "Error al insertar usuario", <<>>)

\* updateUserHandler: up to the first await
updateUserHandler(srv, req) ==
  LET id == getId(req)
      c == NewCtx("update", id, [NoBody EXCEPT !.name = req.name])
      name == TrimCall(OrElse(req.name, JStr(<<>>)))
  IN  IF name.threw THEN UsersCatch(srv, c, TypeErrorMessage)
      ELSE IF ~IsInteger(id) THEN Respond(c, 400, "ID no proporcionado", <<>>)
      ELSE IF name.v = <<>> THEN Respond(c, 400, "Nombre no válido", <<>>)
      ELSE Await(c, "q1", <<name.v>>)

\* updateUserHandler: after the UPDATE
updateUserUpdated(srv, c, res) ==
  IF res.err # "" THEN UsersCatch(srv, c, res.err)
  ELSE IF res.affectedRows = 1 THEN Await(c, "q2", c.args)
  ELSE Respond(c, 404, "Usuario no encontrado", <<>>)

\* faulty variant of updateUserReread: the response echoes the request, not the row
updateUserEcho(srv, c, res) ==
  IF res.err # "" THEN UsersCatch(srv, c, res.err)
  ELSE Respond(c, 200, "Usuario actualizado correctamente", <<[id |-> c.id.v, name |-> c.args[1]]>>)

\* updateUserHandler: after the re-read; user: rows[0] || { id, name }
updateUserReread(srv, c, res) ==
  IF res.err # "" THEN UsersCatch(srv, c, res.err)
  ELSE Respond(c, 200, "Usuario actualizado correctamente",
               IF res.rows # <<>> THEN <<res.rows[1]>> ELSE <<[id |-> c.id.v, name |-> c.args[1]]>>)

\* app.delete("/users/:id?"): up to the await
DeleteUsersHandler(srv, req) ==
  LET id == getId(req)
      c == NewCtx("delete", id, NoBody)
  IN  IF ~IsInteger(id) THEN Respond(c, 400, "ID no proporcionado", <<>>)
      ELSE Await(c, "q1", <<>>)

\* app.delete("/users/:id?"): from the await on
DeleteUsersResult(srv, c, res) ==
  IF res.err # "" THEN UsersCatch(srv, c, res.err)
  ELSE IF res.affectedRows = 1 THEN Respond(c, 200, "Usuario eliminado correctamente", <<>>)
  ELSE Respond(c, 404, "Usuario no encontrado", <<>>)

\* requests of the /users family: body.name, and where the id is given
CreateNames == {JUndef, JStr(<<" ">>), JStr(<<"a">>), JNum(5)}
UpdateNames == {JUndef, JStr(<<" ">>), JStr(<<"a">>), JStr(<<" ", "b", " ">>), JNum(5)}
UserIdRequests ==
  {NoRequest,
   [params |-> JStr(<<"1">>), query |-> JStr(<<"2">>), bodyId |-> JNum(7)],
   [params |-> JUndef, query |-> JStr(<<"2">>), bodyId |-> JNum(7)],
   [params |-> JStr(<<"x">>), query |-> JStr(<<"2">>), bodyId |-> JUndef]}

Users == server \in UsersServers
Frame == UNCHANGED <<server, gReq, gOut>>

GetUsers == Users /\ Arrive(GetUsersHandler) /\ UNCHANGED <<db, nextId, created, deleted>> /\ Frame

GetUsersDone ==
  /\ Users
  /\ \E c \in Suspended("list", "q1"), e \in Outcomes :
       LET res == IF e = "" THEN SqlSelectUsers(db) ELSE Failed(db, e)
       IN  Resume(c, GetUsersResult(server, c, res))
  /\ UNCHANGED <<db, nextId, created, deleted>> /\ Frame

PostUsers ==
  /\ Users
  /\ \E name \in CreateNames : Arrive(PostUsersHandler(server, [NoBody EXCEPT !.name = name]))
  /\ UNCHANGED <<db, nextId, created, deleted>> /\ Frame

PostUsersInsert ==
  /\ Users
  /\ \E c \in Suspended("create", "q1"), e \in Outcomes :
       LET res == IF e = "" THEN SqlInsertUsers(db, nextId, c.args[1]) ELSE Failed(db, e)
           out == PostUsersResult(server, c, res)
       IN  /\ e = "" => nextId <= MaxId
           /\ db' = res.tbl
           /\ nextId' = IF e = "" THEN nextId + 1 ELSE nextId
           /\ created' = IF e = "" THEN BagAdd(created, res.insertId) ELSE created
           /\ Resume(c, out)
  /\ UNCHANGED deleted /\ Frame

UpdateUsers ==
  /\ Users
  /\ \E r \in UserIdRequests, name \in UpdateNames :
       Arrive(updateUserHandler(server, [params |-> r.params, query |-> r.query, bodyId |-> r.bodyId, name |-> name]))
  /\ UNCHANGED <<db, nextId, created, deleted>> /\ Frame

UpdateUsersUpdate ==
  /\ Users
  /\ \E c \in Suspended("update", "q1"), e \in Outcomes :
       LET res == IF e = "" THEN SqlUpdateUsers(db, c.id.v, c.args[1]) ELSE Failed(db, e)
       IN  db' = res.tbl /\ Resume(c, updateUserUpdated(server, c, res))
  /\ UNCHANGED <<nextId, created, deleted>> /\ Frame

UpdateUsersReread ==
  /\ Users
  /\ \E c \in Suspended("update", "q2"), e \in Outcomes :
       LET res == IF e = "" THEN SqlSelectById(db, c.id.v) ELSE Failed(db, e)
       IN  Resume(c, updateUserReread(server, c, res))
  /\ UNCHANGED <<db, nextId, created, deleted>> /\ Frame

DeleteUsers ==
  /\ Users
  /\ \E r \in UserIdRequests : Arrive(DeleteUsersHandler(server, r))
  /\ UNCHANGED <<db, nextId, created, deleted>> /\ Frame

DeleteUsersDelete ==
  /\ Users
  /\ \E c \in Suspended("delete", "q1"), e \in Outcomes :
       LET res == IF e = "" THEN SqlDeleteById(db, c.id.v) ELSE Failed(db, e)
       IN  /\ db' = res.tbl
           /\ deleted' = IF res.affectedRows > 0 THEN deleted \cup {c.id.v} ELSE deleted
           /\ Resume(c, DeleteUsersResult(server, c, res))
  /\ UNCHANGED <<nextId, created>> /\ Frame

UsersNext ==
  \/ GetUsers \/ GetUsersDone \/ PostUsers \/ PostUsersInsert
  \/ UpdateUsers \/ UpdateUsersUpdate \/ UpdateUsersReread
  \/ DeleteUsers \/ DeleteUsersDelete

(* ----------------------- /api/resources: server.js --------------------- *)
Resources == server = "resources"

\* SELECT ... FROM resources ORDER BY created_at DESC
SqlSelectResources(tbl) ==
  LET n == Cardinality(DOMAIN tbl)
      f == CHOOSE g \in [1..n -> DOMAIN tbl] : \A i, j \in 1..n : i < j => tbl[g[i]].created_at > tbl[g[j]].created_at
  IN  Done(tbl, 0, 0, [i \in 1..n |-> tbl[f[i]]])

\* INSERT INTO resources (title, description, url, type, platform) VALUES
\* (?, ?, ?, ?, ?); id is AUTO_INCREMENT and created_at the time of the
\* insert, a logical clock that advances with every insert
SqlInsertResources(tbl, nid, args) ==
  LET row == [id |-> nid, title |-> args[1], description |-> args[2], url |-> args[3],
              type |-> args[4], platform |-> args[5], created_at |-> nid]
  IN  Done([i \in DOMAIN tbl \cup {nid} |-> IF i = nid THEN row ELSE tbl[i]], 1, nid, <<>>)

\* "Otro", the default of type and platform
Otro == JStr(<<"O", "t", "r", "o">>)

\* app.get("/api/resources"): up to the await
GetResourcesHandler == Await(NewCtx("list", Null, NoBody), "q1", <<>>)

\* app.get("/api/resources"): from the await on
GetResourcesResult(c, res) ==
  IF res.err # "" THEN Respond(c, 500, "Error al obtener los recursos", <<>>)
  ELSE Respond(c, 200, "", res.rows)

\* faulty variant of PostResourcesHandler: type and platform are given no default
PostResourcesNoDefault(body) ==
  LET c == NewCtx("create", Null, body)
      title == TrimCall(body.title)
      description == TrimCall(OrElse(body.description, JStr(<<>>)))
      url == TrimCall(body.url)
      type == TrimCall(OrElse(body.type, JStr(<<>>)))
      platform == TrimCall(OrElse(body.platform, JStr(<<>>)))
  IN  IF Falsy(body.title) \/ Falsy(body.url)
      THEN Respond(c, 400, "El título y la URL son obligatorios", <<>>)
      ELSE IF title.threw \/ description.threw \/ url.threw \/ type.threw \/ platform.threw
      THEN Respond(c, 500, "Error al crear el recurso", <<>>)
      ELSE Await(c, "q1", <<title.v, description.v, url.v, type.v, platform.v>>)

\* app.post("/api/resources"): up to the first await
PostResourcesHandler(body) ==
  LET c == NewCtx("create", Null, body)
      title == TrimCall(body.title)
      description == TrimCall(OrElse(body.description, JStr(<<>>)))
      url == TrimCall(body.url)
      type == TrimCall(OrElse(body.type, Otro))
      platform == TrimCall(OrElse(body.platform, Otro))
  IN  IF Falsy(body.title) \/ Falsy(body.url)
      THEN Respond(c, 400, "El título y la URL son obligatorios", <<>>)
      ELSE IF title.threw \/ description.threw \/ url.threw \/ type.threw \/ platform.threw
      THEN Respond(c, 500, "Error al crear el recurso", <<>>)
      ELSE Await(c, "q1", <<title.v, description.v, url.v, type.v, platform.v>>)

\* app.post("/api/resources"): after the INSERT
PostResourcesInserted(c, res) ==
  IF res.err # "" THEN Respond(c, 500, "Error al crear el recurso", <<>>)
  ELSE Await([c EXCEPT !.insertId = res.insertId], "q2", c.args)

\* app.post("/api/resources"): after the re-read; json(rows[0])
PostResourcesReread(c, res) ==
  IF res.err # "" THEN Respond(c, 500, "Error al crear el recurso", <<>>)
  ELSE Respond(c, 201, "", IF res.rows # <<>> THEN <<res.rows[1]>> ELSE <<>>)

\* app.delete("/api/resources/:id"): up to the await
DeleteResourcesHandler(param) ==
  LET id == parseInt(param)
      c == NewCtx("delete", id, NoBody)
  IN  IF IsNaN(id) THEN Respond(c, 400, "ID inválido", <<>>)
      ELSE Await(c, "q1", <<>>)

\* faulty variant of DeleteResourcesResult: the test on affectedRows is inverted
DeleteResourcesInverted(c, res) ==
  IF res.err # "" THEN Respond(c, 500, "Error al eliminar el recurso", <<>>)
  ELSE IF res.affectedRows # 0 THEN Respond(c, 404, "Recurso no encontrado", <<>>)
  ELSE Respond(c, 200, "Recurso eliminado correctamente", <<>>)

\* app.delete("/api/resources/:id"): from the await on
DeleteResourcesResult(c, res) ==
  IF res.err # "" THEN Respond(c, 500, "Error al eliminar el recurso", <<>>)
  ELSE IF res.affectedRows = 0 THEN Respond(c, 404, "Recurso no encontrado", <<>>)
  ELSE Respond(c, 200, "Recurso eliminado correctamente", <<>>)

\* bodies of POST /api/resources
ResourceBodies ==
  {\* title and url with white space around, a platform, no description and no type
   [title |-> JStr(<<" ", "A", " ">>), description |-> JUndef, url |-> JStr(<<"h", ":", "x", " ">>), type |-> JUndef, platform |-> JStr(<<" ", "p", " ">>)],
   \* a title of white space, a description, an empty type
   [title |-> JStr(<<" ">>), description |-> JStr(<<" ", "d">>), url |-> JStr(<<"u">>), type |-> JStr(<<>>), platform |-> JUndef],
   \* no title; an empty url; a title that is a number
   [title |-> JUndef, description |-> JUndef, url |-> JStr(<<"u">>), type |-> JUndef, platform |-> JUndef],
   [title |-> JStr(<<"A">>), description |-> JUndef, url |-> JStr(<<>>), type |-> JUndef, platform |-> JUndef],
   [title |-> JNum(5), description |-> JUndef, url |-> JStr(<<"u">>), type |-> JUndef, platform |-> JUndef]}

\* :id of DELETE /api/resources/:id, always present
ResourcePathIds == {JStr(<<"1">>), JStr(<<"x">>), JStr(HugeDigits)}

\* the error of a statement whose id parameter is no finite number
BadIdError == "Unknown column 'Infinity' in 'where clause'"

GetResources == Resources /\ Arrive(GetResourcesHandler) /\ UNCHANGED <<db, nextId, created, deleted>> /\ Frame

GetResourcesDone ==
  /\ Resources
  /\ \E c \in Suspended("list", "q1"), e \in Outcomes :
       LET res == IF e = "" THEN SqlSelectResources(db) ELSE Failed(db, e)
       IN  Resume(c, GetResourcesResult(c, res))
  /\ UNCHANGED <<db, nextId, created, deleted>> /\ Frame

PostResources ==
  /\ Resources
  /\ \E body \in ResourceBodies : Arrive(PostResourcesHandler(body))
  /\ UNCHANGED <<db, nextId, created, deleted>> /\ Frame

PostResourcesInsert ==
  /\ Resources
  /\ \E c \in Suspended("create", "q1"), e \in Outcomes :
       LET res == IF e = "" THEN SqlInsertResources(db, nextId, c.args) ELSE Failed(db, e)
       IN  /\ e = "" => nextId <= MaxId
           /\ db' = res.tbl
           /\ nextId' = IF e = "" THEN nextId + 1 ELSE nextId
           /\ created' = IF e = "" THEN BagAdd(created, res.insertId) ELSE created
           /\ Resume(c, PostResourcesInserted(c, res))
  /\ UNCHANGED deleted /\ Frame

PostResourcesSelect ==
  /\ Resources
  /\ \E c \in Suspended("create", "q2"), e \in Outcomes :
       LET res == IF e = "" THEN SqlSelectById(db, c.insertId) ELSE Failed(db, e)
       IN  Resume(c, PostResourcesReread(c, res))
  /\ UNCHANGED <<db, nextId, created, deleted>> /\ Frame

DeleteResources ==
  /\ Resources
  /\ \E param \in ResourcePathIds : Arrive(DeleteResourcesHandler(param))
  /\ UNCHANGED <<db, nextId, created, deleted>> /\ Frame

DeleteResourcesDelete ==
  /\ Resources
  /\ \E c \in Suspended("delete", "q1"), e \in Outcomes :
       LET res == IF ~IsInteger(c.id) THEN Failed(db, BadIdError)
                  ELSE IF e = "" THEN SqlDeleteById(db, c.id.v) ELSE Failed(db, e)
       IN  /\ db' = res.tbl
           /\ deleted' = IF res.affectedRows > 0 THEN deleted \cup {c.id.v} ELSE deleted
           /\ Resume(c, DeleteResourcesResult(c, res))
  /\ UNCHANGED <<nextId, created>> /\ Frame

ResourcesNext ==
  \/ GetResources \/ GetResourcesDone \/ PostResources \/ PostResourcesInsert
  \/ PostResourcesSelect \/ DeleteResources \/ DeleteResourcesDelete

(* ------------------------------ getId alone ---------------------------- *)
Pending == [k |-> "pending", v |-> 0]

\* getId is applied to the request drawn at the start
ResolveId ==
  /\ gOut = Pending
  /\ gOut' = getId(gReq)
  /\ UNCHANGED <<server, db, nextId, inflight, last, created, deleted, gReq>>

(* ---------------------------- specifications --------------------------- *)
\* the store starts empty, no request is in flight
Start ==
  /\ db = <<>>
  /\ nextId = 1
  /\ inflight = <<>>
  /\ last = NoResponse
  /\ created = <<>>
  /\ deleted = {}

Init ==
  /\ server \in {"users1", "resources"}
  /\ Start
  /\ gReq = NoRequest
  /\ gOut = Null

Next == UsersNext \/ ResourcesNext

\* part_001 (/users) and server.js (/api/resources)
Spec == Init /\ [][Next]_vars

InitUsers ==
  /\ server = "users1"
  /\ Start
  /\ gReq = NoRequest
  /\ gOut = Null

\* part_001 (/users) alone
SpecUsers == InitUsers /\ [][UsersNext]_vars

InitResources ==
  /\ server = "resources"
  /\ Start
  /\ gReq = NoRequest
  /\ gOut = Null

\* server.js (/api/resources) alone
SpecResources == InitResources /\ [][ResourcesNext]_vars

InitUsers0 ==
  /\ server = "users0"
  /\ Start
  /\ gReq = NoRequest
  /\ gOut = Null

\* part_000 (/users)
SpecUsers0 == InitUsers0 /\ [][UsersNext]_vars

InitGetId ==
  /\ server = "users1"
  /\ Start
  /\ gReq \in IdRequests
  /\ gOut = Pending

\* getId on every request of IdRequests
SpecGetId == InitGetId /\ [][ResolveId]_vars

(* ------------------------------- claims -------------------------------- *)
\* the requests the server holds: those suspended and the one just answered
Contexts == DOMAIN inflight \cup {last}

\* the first of path, query and body that carries an id
FirstPresent(req) ==
  IF req.params # JUndef THEN req.params
  ELSE IF req.query # JUndef THEN req.query
  ELSE req.bodyId

\* C1: getId gives the id of the first location that carries one, path
\* before query before body, parsed in base 10 (path 5, query 6, body 7
\* gives 5); when that value does not parse to an integer, or no location
\* carries an id, it gives null, which is not the integer 0.
C1_GetIdPrecedence ==
  gOut # Pending =>
    /\ IsInteger(parseInt(FirstPresent(gReq))) => gOut = parseInt(FirstPresent(gReq))
    /\ ~IsInteger(parseInt(FirstPresent(gReq))) => gOut = Null
    /\ (gReq.params = JStr(<<"5">>) /\ gReq.query = JStr(<<"6">>)) => gOut = JInt(5)
    /\ (gReq.params = JUndef /\ gReq.query = JStr(<<"6">>)) => gOut = JInt(6)
    /\ (gReq.params = JUndef /\ gReq.query = JUndef /\ gReq.bodyId = JNum(0)) => gOut = JInt(0)
    /\ gReq = NoRequest => (gOut = Null /\ gOut # JInt(0))

C1_Witness ==
  /\ gOut = JInt(5)
  /\ gReq = [params |-> JStr(<<"5">>), query |-> JStr(<<"6">>), bodyId |-> JNum(7)]

\* C2: an update or delete request whose identifier does not resolve to an
\* integer is answered 400 and issues no query.
C2_NoIdentifierNoQuery ==
  \A c \in Contexts :
    (c.kind \in {"update", "delete"} /\ ~IsInteger(c.id)) =>
      (c.pc = "done" /\ c.status = 400 /\ c.nq = 0)

\* a required field is absent or empty after trimming
Blank(x) == x.t = "undefined" \/ (x.t = "string" /\ Trim(x.s) = <<>>)
RequiredMissing(c) ==
  IF Resources THEN Blank(c.body.title) \/ Blank(c.body.url) ELSE Blank(c.body.name)

\* C3: a create request with a required field absent or empty after
\* trimming is answered 400 and attempts no insert, so no stored row has an
\* empty required field.
C3_RequiredFields ==
  /\ \A c \in Contexts :
       (c.kind = "create" /\ RequiredMissing(c)) => (c.pc = "done" /\ c.status = 400 /\ c.nq = 0)
  /\ \A i \in DOMAIN db :
       IF Resources THEN db[i].title # <<>> /\ db[i].url # <<>> ELSE db[i].name # <<>>

\* a name that is a non-empty string after trimming
ValidName(x) == x.t = "string" /\ Trim(x.s) # <<>>

\* C4: an update with a name that is empty after trimming is answered 400
\* without an UPDATE; the identifier is checked first, so a request with
\* neither a resolvable identifier nor a valid name gets the identifier error.
C4_UpdateValidationOrder ==
  (Users /\ last.kind = "update" /\ ~ValidName(last.body.name)) =>
    /\ last.status = 400 /\ last.nq = 0
    /\ ~IsInteger(last.id) => last.msg = "ID no proporcionado"

\* the step completes the suspended request c with a response of its kind
Completes(c) ==
  /\ inflight' = BagRemove(inflight, c)
  /\ last'.kind = c.kind /\ last'.id = c.id /\ last'.body = c.body /\ last'.args = c.args

\* C5: a delete with a resolved identifier answers 404 and leaves the table
\* as it is when no row has that id; answers success and removes that row
\* and no other when a row has it; answers 500 on a storage error.
C5_DeleteEffect ==
  [][\A c \in Suspended("delete", "q1") :
       (IsInteger(c.id) /\ Completes(c)) =>
         \/ last'.status = 500 /\ db' = db
         \/ c.id.v \notin DOMAIN db /\ last'.status = 404 /\ db' = db
         \/ /\ c.id.v \in DOMAIN db /\ last'.status = 200
            /\ DOMAIN db' = DOMAIN db \ {c.id.v}
            /\ \A i \in DOMAIN db' : db'[i] = db[i]]_vars

C5_Witness ==
  /\ last.kind = "delete" /\ last.status = 200
  /\ DOMAIN db # {}
  /\ last.id.v \notin DOMAIN db

\* C6: a create answered with success has inserted a row (created holds
\* the ids of the rows inserted), and a list that succeeds holds every row
\* inserted and not deleted since exactly once.
C6_ListHasCreated ==
  /\ (last.kind = "create" /\ last.status \in {200, 201}) => last.insertId \in DOMAIN created
  /\ (last.kind = "list" /\ last.status = 200) =>
       \A i \in DOMAIN created :
         i \notin deleted => Cardinality({k \in 1..Len(last.data) : last.data[k].id = i}) = 1

C6_Witness ==
  /\ last.kind = "list" /\ last.status = 200
  /\ Len(last.data) = 2
  /\ \E i \in DOMAIN created : i \notin deleted

\* C7: under any interleaving of /users creates, a create answered with
\* success adds exactly one row, holding the submitted name under an id that
\* no earlier successful create was given.
C7_UniqueIds ==
  [][\A c \in Suspended("create", "q1") :
       (Users /\ Completes(c) /\ last'.status = 200) =>
         /\ Cardinality(DOMAIN db') = Cardinality(DOMAIN db) + 1
         /\ last'.insertId \in DOMAIN db' \ DOMAIN db
         /\ last'.insertId \notin DOMAIN created
         /\ db'[last'.insertId].name = c.args[1]
         /\ \A i \in DOMAIN db : db'[i] = db[i]]_vars

C7_Witness ==
  /\ Users /\ last.kind = "create" /\ last.status = 200 /\ last.insertId = 2
  /\ \E c \in DOMAIN inflight : c.kind = "create"
  /\ Cardinality(DOMAIN db) = 2

\* C8: after a storage query failed the response is 500 with a message that
\* is the same whatever the error was.
C8_GenericStorageError ==
  (Users /\ last.status = 500 /\ last.nq > 0) =>
    \A e \in ErrDetails : last.msg = UsersCatchMessage(server, last.kind, e)

\* C9 as claimed: a successful update answers with the resolved identifier
\* and the submitted trimmed name.
C9_CarriesSubmittedName ==
  (Users /\ last.kind = "update" /\ last.status = 200) =>
    last.data = <<[id |-> last.id.v, name |-> Trim(last.body.name.s)]>>

\* the step runs the UPDATE of c and c goes on to its re-read
GoesToReread(c) ==
  /\ inflight' = BagAdd(BagRemove(inflight, c), Await(c, "q2", c.args))
  /\ last' = NoResponse

\* C9 as amended: the UPDATE of a request with a resolved id and a valid
\* name either fails (500, table unchanged), or matches no row (404, table
\* unchanged), or stores the submitted trimmed name in the row of that id
\* alone; the re-read that follows answers 500 on a failure and otherwise
\* success with the row as it is then stored, or with the id and the
\* submitted name when the row is gone.
C9_UpdateResult ==
  [][/\ \A c \in Suspended("update", "q1") :
          /\ c.args = <<Trim(c.body.name.s)>>
          /\ (Users /\ Completes(c)) =>
               /\ db' = db
               /\ \/ last'.status = 500
                  \/ last'.status = 404 /\ c.id.v \notin DOMAIN db
          /\ (Users /\ GoesToReread(c)) =>
               /\ c.id.v \in DOMAIN db
               /\ db' = [db EXCEPT ![c.id.v].name = c.args[1]]
     /\ \A c \in Suspended("update", "q2") :
          (Users /\ Completes(c)) =>
            /\ db' = db
            /\ \/ last'.status = 500
               \/ /\ last'.status = 200
                  /\ last'.data = IF c.id.v \in DOMAIN db THEN <<db[c.id.v]>>
                                  ELSE <<[id |-> c.id.v, name |-> c.args[1]]>>]_vars

C9_Witness ==
  /\ Users /\ last.kind = "update" /\ last.status = 200
  /\ last.data[1].id = last.id.v
  /\ last.data[1].name # last.args[1]

\* the value an optional field is stored with: as claimed, and as coded
ClaimedOptional(x, default) == IF x.t = "undefined" THEN {default.s} ELSE {Trim(x.s), default.s}
StoredOptional(x, default) == IF Falsy(x) THEN default.s ELSE Trim(x.s)

\* C10 as claimed: a Resource create whose insert succeeded answers 201 with
\* the created row: its id, the trimmed title and url, each optional field
\* trimmed or at its default.
C10_CreatedRowReturned ==
  (Resources /\ last.kind = "create" /\ last.insertId # 0) =>
    /\ last.status = 201
    /\ Len(last.data) = 1
    /\ last.data[1].id = last.insertId
    /\ last.data[1].title = Trim(last.body.title.s)
    /\ last.data[1].url = Trim(last.body.url.s)
    /\ last.data[1].description \in ClaimedOptional(last.body.description, JStr(<<>>))
    /\ last.data[1].type \in ClaimedOptional(last.body.type, Otro)
    /\ last.data[1].platform \in ClaimedOptional(last.body.platform, Otro)

\* C10 as amended: a Resource create whose insert succeeded answers 500 when
\* the re-read fails; otherwise 201, with an empty body when the row was
\* deleted in between and else with the created row: its id, the trimmed
\* title and url, each optional field trimmed, or at its default when it was
\* absent or empty.
C10_CreateResult ==
  (Resources /\ last.kind = "create" /\ last.insertId # 0) =>
    \/ last.status = 500 /\ last.data = <<>>
    \/ last.status = 201 /\ last.data = <<>> /\ last.insertId \in deleted
    \/ /\ last.status = 201
       /\ Len(last.data) = 1
       /\ last.data[1].id = last.insertId
       /\ last.data[1].title = Trim(last.body.title.s)
       /\ last.data[1].url = Trim(last.body.url.s)
       /\ last.data[1].description = StoredOptional(last.body.description, JStr(<<>>))
       /\ last.data[1].type = StoredOptional(last.body.type, Otro)
       /\ last.data[1].platform = StoredOptional(last.body.platform, Otro)

C10_Witness ==
  /\ Resources /\ last.kind = "create" /\ last.status = 201
  /\ Len(last.data) = 1
  /\ last.body.type = JUndef /\ last.data[1].type = Otro.s
  /\ last.body.description = JUndef /\ last.data[1].description = <<>>
  /\ last.data[1].platform = <<"p">>
====
